---------------------------- MODULE Spec2Model ----------------------------
(***************************************************************************)
(* MSBuild MCP server: the single tool build_msbuild_project and the       *)
(* helpers it calls, in the two revisions the repository carries:          *)
(*   "script"  : src/server.py                                             *)
(*   "package" : src/src/msbuild_mcp_server/server.py                      *)
(* Python strings are TLA+ strings (Len, SubSeq, Head, Tail and \o act on  *)
(* them character by character).                                           *)
(***************************************************************************)
EXTENDS Integers, Sequences, FiniteSets, TLC

VARIABLES
    pc,        \* position of the invocation inside build_msbuild_project
    rev,       \* which revision of server.py serves the invocation
    req,       \* the parameters of the invocation
    world,     \* what the invocation finds outside: toolchain, launchability
    msbuild,   \* local msbuild: the path find_msbuild returned
    configs,   \* local configs, as a set (the code builds list(set))
    plats,     \* local plats
    cmd,       \* local cmd: the argument vector
    launches,  \* number of calls of subprocess.run made by the invocation
    child,     \* the child process: state, returncode, stdout, stderr
    outcome,   \* "none", "returned" or "raised"
    result,    \* the value returned, or the exception raised
    arg,       \* input of a helper applied on its own
    ret        \* its result

vars == <<pc, rev, req, world, msbuild, configs, plats, cmd, launches,
          child, outcome, result, arg, ret>>

---------------------------------------------------------------------------
(* Bounds of the model.                                                    *)

MaxSlnLines == 4
MaxOutPieces == 2

---------------------------------------------------------------------------
(* Python str primitives.                                                  *)

Char(s, i) == SubSeq(s, i, i)

\* t in s
Contains(s, t) ==
    \E i \in 1..(Len(s) - Len(t) + 1) : SubSeq(s, i, i + Len(t) - 1) = t

\* s.find(t), 1-based; 0 when absent
Find(s, t) ==
    IF Contains(s, t)
    THEN CHOOSE i \in 1..(Len(s) - Len(t) + 1) :
            /\ SubSeq(s, i, i + Len(t) - 1) = t
            /\ \A j \in 1..(i - 1) : SubSeq(s, j, j + Len(t) - 1) # t
    ELSE 0

\* s.endswith(t)
EndsWith(s, t) ==
    Len(s) >= Len(t) /\ SubSeq(s, Len(s) - Len(t) + 1, Len(s)) = t

Whitespace == {" ", "\t", "\n", "\r", "\f"}

Min(S) == CHOOSE x \in S : \A y \in S : x <= y
Max(S) == CHOOSE x \in S : \A y \in S : x >= y

\* the positions of s from i on that hold no whitespace
Inked(s, i) == {j \in i..Len(s) : Char(s, j) \notin Whitespace}

LStrip(s) ==
    IF Inked(s, 1) = {} THEN "" ELSE SubSeq(s, Min(Inked(s, 1)), Len(s))

RStrip(s) ==
    IF Inked(s, 1) = {} THEN "" ELSE SubSeq(s, 1, Max(Inked(s, 1)))

\* s.strip()
Strip(s) == RStrip(LStrip(s))

\* s.split(sep)[0]
SplitHead(s, sep) ==
    IF Contains(s, sep) THEN SubSeq(s, 1, Find(s, sep) - 1) ELSE s

\* s.split(sep, 1) for s that contains sep
SplitOnce(s, sep) ==
    <<SubSeq(s, 1, Find(s, sep) - 1),
      SubSeq(s, Find(s, sep) + Len(sep), Len(s))>>

\* s.split(): the maximal runs of non-whitespace characters, from i on
RECURSIVE SplitFrom(_, _)
SplitFrom(s, i) ==
    IF Inked(s, i) = {} THEN <<>>
    ELSE LET start == Min(Inked(s, i))
             blanks == {j \in start..Len(s) : Char(s, j) \in Whitespace}
             stop == IF blanks = {} THEN Len(s) + 1 ELSE Min(blanks)
         IN  <<SubSeq(s, start, stop - 1)>> \o SplitFrom(s, stop)

Split(s) == SplitFrom(s, 1)

UpperLetters == "ABCDEFGHIJKLMNOPQRSTUVWXYZ"
LowerLetters == "abcdefghijklmnopqrstuvwxyz"

LowerChar(c) ==
    IF \E i \in 1..Len(UpperLetters) : Char(UpperLetters, i) = c
    THEN Char(LowerLetters,
              CHOOSE i \in 1..Len(UpperLetters) : Char(UpperLetters, i) = c)
    ELSE c

\* s.lower(), character by character
RECURSIVE Lower(_)
Lower(s) ==
    IF Len(s) = 0 THEN ""
    ELSE IF Len(s) = 1 THEN LowerChar(s)
         ELSE Lower(SubSeq(s, 1, Len(s) \div 2))
              \o Lower(SubSeq(s, Len(s) \div 2 + 1, Len(s)))

LineBreaks == {"\n", "\r", "\f"}

\* s.splitlines() from i on: "\r\n" is one boundary, no empty last line
RECURSIVE SplitLinesFrom(_, _)
SplitLinesFrom(s, i) ==
    IF i > Len(s) THEN <<>>
    ELSE LET breaks == {j \in i..Len(s) : Char(s, j) \in LineBreaks}
         IN  IF breaks = {} THEN <<SubSeq(s, i, Len(s))>>
             ELSE LET b == Min(breaks)
                      crlf == /\ Char(s, b) = "\r"
                              /\ b < Len(s)
                              /\ Char(s, b + 1) = "\n"
                  IN  <<SubSeq(s, i, b - 1)>>
                      \o SplitLinesFrom(s, IF crlf THEN b + 2 ELSE b + 1)

SplitLines(s) == SplitLinesFrom(s, 1)

\* sep.join(parts)
RECURSIVE Join(_, _)
Join(sep, parts) ==
    IF parts = <<>> THEN ""
    ELSE IF Len(parts) = 1 THEN parts[1]
         ELSE parts[1] \o sep \o Join(sep, Tail(parts))


\* first index >= i at which t occurs in s; 0 when there is none
IndexFrom(s, t, i) ==
    IF \E j \in i..(Len(s) - Len(t) + 1) : SubSeq(s, j, j + Len(t) - 1) = t
    THEN CHOOSE j \in i..(Len(s) - Len(t) + 1) :
            /\ SubSeq(s, j, j + Len(t) - 1) = t
            /\ \A k \in i..(j - 1) : SubSeq(s, k, k + Len(t) - 1) # t
    ELSE 0

\* position after a run of \s starting at i
SkipWs(s, i) ==
    IF i > Len(s) THEN i
    ELSE IF Inked(s, i) = {} THEN Len(s) + 1 ELSE Min(Inked(s, i))

---------------------------------------------------------------------------
(* get_msbuild_configurations_and_platforms.                               *)
(* A file is what the path names on disk:                                  *)
(*   readable   : open() succeeds and the bytes decode as UTF-8            *)
(*   lines      : its text lines, without the line terminator              *)
(*   wellformed : ET.parse accepts it                                      *)
(*   elements   : the descendants of its root, each with namespace, tag    *)
(*                and Condition attribute ("" when it has none)            *)

SlnSectionMarker == "GlobalSection(SolutionConfigurationPlatforms)"
SlnSectionEnd == "EndGlobalSection"
MsbuildNs == "http://schemas.microsoft.com/developer/msbuild/2003"

\* lines 46-51: the entry a line of the section contributes, if any
SlnEntry(config_line) ==
    IF Contains(config_line, "=")
    THEN LET configplat == Strip(SplitHead(config_line, "="))
         IN  IF Contains(configplat, "|")
             THEN {SplitOnce(configplat, "|")}
             ELSE {}
    ELSE {}

\* SlnSectionEnds with the break of lines 44-45 lost
SlnSectionEnds_never(config_line) == FALSE

\* line 44: the inner loop stops at this line
SlnSectionEnds(config_line) == Contains(config_line, SlnSectionEnd)

\* AddEntries with line 51 (and 66) lost: the platform is not recorded
AddEntries_configs_only(acc, entries) ==
    [configs |-> acc.configs \cup {e[1] : e \in entries},
     plats |-> acc.plats]

\* lines 50-51 and 65-66: configs.add(config); plats.add(plat)
AddEntries(acc, entries) ==
    [configs |-> acc.configs \cup {e[1] : e \in entries},
     plats |-> acc.plats \cup {e[2] : e \in entries}]

NoEntries == [configs |-> {}, plats |-> {}]

\* lines 41-51: both loops draw from the same file iterator; inside tells
\* which of the two holds it
RECURSIVE ScanSln(_, _, _, _)
ScanSln(lines, i, inside, acc) ==
    IF i > Len(lines) THEN acc
    ELSE IF ~inside
         THEN ScanSln(lines, i + 1, Contains(lines[i], SlnSectionMarker), acc)
         ELSE IF SlnSectionEnds(lines[i])
              THEN ScanSln(lines, i + 1, FALSE, acc)
              ELSE ScanSln(lines, i + 1, TRUE,
                           AddEntries(acc, SlnEntry(lines[i])))

\* line 63, re.search on one start position: <<>> or <<group 1, group 2>>
CondPrefix == "'$(Configuration)|$(Platform)'"

RegexMatchAt(cond, i) ==
    LET b == SkipWs(cond, i + Len(CondPrefix))
        c == SkipWs(cond, b + 2)
        p == IndexFrom(cond, "|", c + 1)
        q == IndexFrom(cond, "'", p + 1)
    IN  IF /\ i + Len(CondPrefix) - 1 <= Len(cond)
           /\ SubSeq(cond, i, i + Len(CondPrefix) - 1) = CondPrefix
           /\ b + 1 <= Len(cond)
           /\ SubSeq(cond, b, b + 1) = "=="
           /\ c <= Len(cond)
           /\ Char(cond, c) = "'"
           /\ p > c + 1
           /\ q > p + 1
        THEN <<SubSeq(cond, c + 1, p - 1), SubSeq(cond, p + 1, q - 1)>>
        ELSE <<>>

RegexSearch(cond) ==
    LET hits == {i \in 1..Len(cond) : RegexMatchAt(cond, i) # <<>>}
    IN  IF hits = {} THEN <<>>
        ELSE RegexMatchAt(cond, CHOOSE i \in hits : \A j \in hits : i <= j)

\* lines 58-66: what one element of the document contributes
ProjEntry(el) ==
    IF /\ el.ns = MsbuildNs
       /\ el.tag = "PropertyGroup"
       /\ Contains(el.Condition, "Configuration")
       /\ Contains(el.Condition, "Platform")
       /\ RegexSearch(el.Condition) # <<>>
    THEN {RegexSearch(el.Condition)}
    ELSE {}

RECURSIVE ScanProj(_, _, _)
ScanProj(elements, i, acc) ==
    IF i > Len(elements) THEN acc
    ELSE ScanProj(elements, i + 1, AddEntries(acc, ProjEntry(elements[i])))

\* the value returned, or raised when an exception leaves the function
Returned(acc) == [raised |-> FALSE, configs |-> acc.configs, plats |-> acc.plats]

get_msbuild_configurations_and_platforms(project_path, file) ==
    IF EndsWith(project_path, ".sln")
    THEN IF file.readable
         THEN Returned(ScanSln(file.lines, 1, FALSE, NoEntries))
         ELSE [raised |-> TRUE, configs |-> {}, plats |-> {}]
    ELSE IF file.readable /\ file.wellformed
         THEN Returned(ScanProj(file.elements, 1, NoEntries))
         ELSE Returned(NoEntries)

---------------------------------------------------------------------------
(* find_msbuild.  installation is what get_latest_path(products='*')       *)
(* returns ("" for None or an empty path); binary_exists is                *)
(* os.path.exists(msbuild_path).                                           *)

Raise(type, where, message) ==
    [kind |-> "exception", type |-> type, where |-> where, message |-> message]

Str(parts) == [kind |-> "str", parts |-> parts]

Json(payload) == [kind |-> "json", payload |-> payload]

find_msbuild(w) ==
    IF w.installation = ""
    THEN [raised |-> TRUE,
          value |-> Raise("FileNotFoundError", "find_msbuild",
              "MSBuild executable not found. Ensure Visual Studio is installed.")]
    ELSE LET msbuild_path ==
                 w.installation \o "\\MSBuild\\Current\\Bin\\MSBuild.exe"
         IN  IF ~w.binary_exists
             THEN [raised |-> TRUE,
                   value |-> Raise("FileNotFoundError", "find_msbuild",
                       "MSBuild executable not found at expected path: "
                       \o msbuild_path)]
             ELSE [raised |-> FALSE, value |-> msbuild_path]

---------------------------------------------------------------------------
(* build_msbuild_project, package revision lines 105-131: the checks made  *)
(* before a command is built.                                              *)

Proceed == [kind |-> "proceed"]

\* lines 105-109
MissingFileMessage(project_path) ==
    Str(<<"The specified project_path does not exist or is not a file: ",
          project_path,
          "\nPlease provide the absolute path to the project or solution file to build.">>)

\* ValidationGate with the platform check of lines 127-131 lost
ValidationGate_platform_unchecked(configuration, platform, cfgs, plts) ==
    IF configuration = "" \/ platform = ""
    THEN IF cfgs = {} \/ plts = {}
         THEN Str(<<"Could not extract available configurations or platforms from the project file. Please specify them manually.">>)
         ELSE Json([message |-> "Please select a configuration and platform from the available options.",
                    available_configurations |-> cfgs,
                    available_platforms |-> plts])
    ELSE IF cfgs # {} /\ configuration \notin cfgs
         THEN Json([message |-> "The configuration '" \o configuration
                        \o "' is not supported by this project. Please select from the available options.",
                    available_configurations |-> cfgs])
         ELSE Proceed

\* ValidationGate with the emptiness guards of lines 122 and 127 lost
ValidationGate_empty_sets_reject(configuration, platform, cfgs, plts) ==
    IF configuration = "" \/ platform = ""
    THEN IF cfgs = {} \/ plts = {}
         THEN Str(<<"Could not extract available configurations or platforms from the project file. Please specify them manually.">>)
         ELSE Json([message |-> "Please select a configuration and platform from the available options.",
                    available_configurations |-> cfgs,
                    available_platforms |-> plts])
    ELSE IF configuration \notin cfgs
         THEN Json([message |-> "The configuration '" \o configuration
                        \o "' is not supported by this project. Please select from the available options.",
                    available_configurations |-> cfgs])
         ELSE IF platform \notin plts
              THEN Json([message |-> "The platform '" \o platform
                             \o "' is not supported by this project. Please select from the available options.",
                         available_platforms |-> plts])
              ELSE Proceed

\* lines 113-131; a str is falsy when empty, a list when it has no element
ValidationGate(configuration, platform, cfgs, plts) ==
    IF configuration = "" \/ platform = ""
    THEN IF cfgs = {} \/ plts = {}
         THEN Str(<<"Could not extract available configurations or platforms from the project file. Please specify them manually.">>)
         ELSE Json([message |-> "Please select a configuration and platform from the available options.",
                    available_configurations |-> cfgs,
                    available_platforms |-> plts])
    ELSE IF cfgs # {} /\ configuration \notin cfgs
         THEN Json([message |-> "The configuration '" \o configuration
                        \o "' is not supported by this project. Please select from the available options.",
                    available_configurations |-> cfgs])
         ELSE IF plts # {} /\ platform \notin plts
              THEN Json([message |-> "The platform '" \o platform
                             \o "' is not supported by this project. Please select from the available options.",
                         available_platforms |-> plts])
              ELSE Proceed

---------------------------------------------------------------------------
(* build_msbuild_project, the command (package 133-150, script 57-74).     *)
(* max_cpu_count is <<>> for None and <<n>> for the integer n.             *)

Truthy(max_cpu_count) == max_cpu_count # <<>> /\ max_cpu_count[1] # 0

BuildCmd(exe, r) ==
    <<exe,
      r.project_path,
      "/p:Configuration=" \o r.configuration,
      "/p:Platform=" \o r.platform,
      "/verbosity:" \o r.verbosity>>
    \o (IF Truthy(r.max_cpu_count)
        THEN <<"/maxcpucount:" \o ToString(r.max_cpu_count[1])>>
        ELSE <<"/m">>)
    \o (IF r.restore THEN <<"/restore">> ELSE <<>>)
    \o (IF r.additional_args # "" THEN Split(r.additional_args) ELSE <<>>)

---------------------------------------------------------------------------
(* build_msbuild_project, the report (package 162-169, script 86-93).      *)

\* HasError with the .lower() of lines 166-167 lost
HasError_case_sensitive(line) == Contains(line, "error")

HasError(line) == Contains(Lower(line), "error")

ErrorLines(text) == SelectSeq(SplitLines(text), HasError)

FilteredErrors(stdout, stderr) ==
    Join("\n", ErrorLines(stdout) \o ErrorLines(stderr))

\* the f-string, piece by piece
FailureReport(revision, stdout, stderr) ==
    IF revision = "script"
    THEN Str(<<"Build failed with errors.\nFiltered Errors:\n",
               FilteredErrors(stdout, stderr),
               "\nFull Output:\n", stdout,
               "\nErrors:\n", stderr>>)
    ELSE Str(<<"Build failed with errors.\nFiltered Errors:\n",
               FilteredErrors(stdout, stderr)>>)

Summarize(revision, returncode, stdout, stderr) ==
    IF returncode = 0
    THEN Str(<<"Build succeeded.">>)
    ELSE FailureReport(revision, stdout, stderr)

LaunchNotFound ==
    Str(<<"MSBuild executable not found. Ensure MSBuild is installed and added to the PATH.">>)

---------------------------------------------------------------------------
(* The introspector applied on its own to bounded solution and project     *)
(* files.                                                                  *)

SeqsUpTo(S, n) == UNION {[1..k -> S] : k \in 0..n}

SlnLinePool ==
    {"Global",
     "\tGlobalSection(SolutionConfigurationPlatforms) = preSolution",
     "\t\tDebug|x64 = Debug|x64",
     "\t\tRelease|Any CPU = Release|Any CPU",
     "\tEndGlobalSection",
     "\tGlobalSection(ProjectConfigurationPlatforms) = postSolution",
     "\t\t{A1}.Debug|x86.Build.0 = Debug|x86",
     "\t\tSolutionGuid = {B2}|x"}

SlnFile(lines) ==
    [readable |-> TRUE, lines |-> lines, wellformed |-> FALSE, elements |-> <<>>]

UnreadableFile ==
    [readable |-> FALSE, lines |-> <<>>, wellformed |-> FALSE, elements |-> <<>>]

ProjFile(elements) ==
    [readable |-> TRUE, lines |-> <<>>, wellformed |-> TRUE, elements |-> elements]

MalformedProjFile ==
    [readable |-> TRUE, lines |-> <<>>, wellformed |-> FALSE, elements |-> <<>>]

Element(ns, tag, cond) == [ns |-> ns, tag |-> tag, Condition |-> cond]

ElementPool ==
    {Element(MsbuildNs, "PropertyGroup", "'$(Configuration)|$(Platform)'=='Debug|x64'"),
     Element(MsbuildNs, "PropertyGroup", " '$(Configuration)|$(Platform)' == 'Release|Win32' "),
     Element(MsbuildNs, "PropertyGroup", "'$(Configuration)' == 'Debug' And '$(Platform)' == 'x64'"),
     Element(MsbuildNs, "PropertyGroup", ""),
     Element(MsbuildNs, "ItemDefinitionGroup", "'$(Configuration)|$(Platform)'=='Debug|ARM'"),
     Element("", "PropertyGroup", "'$(Configuration)|$(Platform)'=='Debug|AnyCPU'")}

IntrospectInputs ==
    {[project_path |-> "C:\\app\\app.sln", file |-> SlnFile(ls)] :
        ls \in SeqsUpTo(SlnLinePool, MaxSlnLines)}
    \cup {[project_path |-> "C:\\app\\app.sln", file |-> UnreadableFile]}
    \cup {[project_path |-> "C:\\app\\app.vcxproj", file |-> ProjFile(es)] :
            es \in SeqsUpTo(ElementPool, 2)}
    \cup {[project_path |-> "C:\\app\\app.vcxproj", file |-> f] :
            f \in {MalformedProjFile, UnreadableFile}}

Idle ==
    /\ pc = "idle"
    /\ rev = "package"
    /\ req = <<>>
    /\ world = <<>>
    /\ msbuild = ""
    /\ configs = {}
    /\ plats = {}
    /\ cmd = <<>>
    /\ launches = 0
    /\ child = [state |-> "none"]
    /\ outcome = "none"
    /\ result = <<>>

InitIntrospect ==
    /\ Idle
    /\ arg \in IntrospectInputs
    /\ ret = <<>>

CallIntrospect ==
    /\ ret = <<>>
    /\ ret' = get_msbuild_configurations_and_platforms(arg.project_path, arg.file)
    /\ UNCHANGED <<pc, rev, req, world, msbuild, configs, plats, cmd,
                   launches, child, outcome, result, arg>>

NextIntrospect == CallIntrospect

SpecIntrospect == InitIntrospect /\ [][NextIntrospect]_vars

---------------------------------------------------------------------------
(* One invocation of the tool build_msbuild_project.                       *)

\* the regular files on disk; every other path is missing or a directory
Disk ==
    ("C:\\app\\app.sln" :>
        SlnFile(<<"Global",
                  "\tGlobalSection(SolutionConfigurationPlatforms) = preSolution",
                  "\t\tDebug|x64 = Debug|x64",
                  "\t\tRelease|x64 = Release|x64",
                  "\tEndGlobalSection",
                  "EndGlobal">>))
    @@ ("C:\\app\\empty.sln" :> SlnFile(<<"Global", "EndGlobal">>))
    @@ ("C:\\app\\latin1.sln" :> UnreadableFile)
    @@ ("C:\\app\\lib.vcxproj" :>
        ProjFile(<<Element(MsbuildNs, "PropertyGroup",
                           "'$(Configuration)|$(Platform)'=='Debug|x64'"),
                   Element(MsbuildNs, "PropertyGroup",
                           "'$(Configuration)|$(Platform)'=='Release|Win32'")>>))
    @@ ("C:\\app\\broken.csproj" :> MalformedProjFile)

\* what open() or ET.parse finds at a path; a path that names no regular
\* file cannot be read
FileAt(project_path) ==
    IF project_path \in DOMAIN Disk THEN Disk[project_path] ELSE UnreadableFile

\* isfile with the check of line 105 lost
isfile_any_path(project_path) == TRUE

\* os.path.isfile
isfile(project_path) == project_path \in DOMAIN Disk

Paths == DOMAIN Disk \cup {"C:\\app\\gone.sln", "C:\\app"}

Requests ==
    [project_path : Paths,
     configuration : {"", "Debug", "Foo"},
     platform : {"", "x64", "ARM"},
     verbosity : {"minimal"},
     max_cpu_count : {<<>>, <<0>>, <<4>>},
     restore : BOOLEAN,
     additional_args : {"", "/t:Rebuild", " /t:Clean  /nologo "}]

\* launchable: subprocess.run finds the executable when it starts it
Worlds ==
    {[installation |-> "", binary_exists |-> FALSE, launchable |-> FALSE],
     [installation |-> "C:\\VS", binary_exists |-> FALSE, launchable |-> FALSE],
     [installation |-> "C:\\VS", binary_exists |-> TRUE, launchable |-> FALSE],
     [installation |-> "C:\\VS", binary_exists |-> TRUE, launchable |-> TRUE]}

Revisions == {"script", "package"}

ReturnCodes == {0, 1}

Stdouts ==
    {"",
     "Build FAILED.\n",
     "a.cs(1,1): Error CS1002: ; expected\r\nBuild FAILED.\n"}

Stderrs == {"", "error MSB1009: project file does not exist"}

Init ==
    /\ Idle
    /\ arg = <<>>
    /\ ret = <<>>

\* the transport calls the tool with its parameters
Invoke ==
    /\ pc = "idle"
    /\ rev' \in Revisions
    /\ req' \in Requests
    /\ world' \in Worlds
    /\ pc' = "find_msbuild"
    /\ UNCHANGED <<msbuild, configs, plats, cmd, launches, child, outcome,
                   result, arg, ret>>

\* the transport has the result; the locals of the invocation are gone and
\* nothing of it is kept for the next one
Complete ==
    /\ pc = "done"
    /\ pc' = "idle"
    /\ rev' = "package"
    /\ req' = <<>>
    /\ world' = <<>>
    /\ msbuild' = ""
    /\ configs' = {}
    /\ plats' = {}
    /\ cmd' = <<>>
    /\ launches' = 0
    /\ child' = [state |-> "none"]
    /\ outcome' = "none"
    /\ result' = <<>>
    /\ UNCHANGED <<arg, ret>>

\* return value / raise exc
Finish(how, value) ==
    /\ pc' = "done"
    /\ outcome' = how
    /\ result' = value

\* package 103, script 56
FindMsbuild ==
    /\ pc = "find_msbuild"
    /\ LET found == find_msbuild(world)
       IN  IF found.raised
           THEN /\ Finish("raised", found.value)
                /\ UNCHANGED msbuild
           ELSE /\ msbuild' = found.value
                /\ pc' = IF rev = "package" THEN "isfile" ELSE "cmd"
                /\ UNCHANGED <<outcome, result>>
    /\ UNCHANGED <<rev, req, world, configs, plats, cmd, launches, child,
                   arg, ret>>

\* package 105-109
CheckProjectPath ==
    /\ pc = "isfile"
    /\ IF ~isfile(req.project_path)
       THEN Finish("returned", MissingFileMessage(req.project_path))
       ELSE /\ pc' = "introspect"
            /\ UNCHANGED <<outcome, result>>
    /\ UNCHANGED <<rev, req, world, msbuild, configs, plats, cmd, launches,
                   child, arg, ret>>

\* package 112
Introspect ==
    /\ pc = "introspect"
    /\ LET got == get_msbuild_configurations_and_platforms(
                      req.project_path, FileAt(req.project_path))
       IN  IF got.raised
           THEN /\ Finish("raised",
                          Raise("OSError or UnicodeDecodeError",
                                "get_msbuild_configurations_and_platforms",
                                req.project_path))
                /\ UNCHANGED <<configs, plats>>
           ELSE /\ configs' = got.configs
                /\ plats' = got.plats
                /\ pc' = "validate"
                /\ UNCHANGED <<outcome, result>>
    /\ UNCHANGED <<rev, req, world, msbuild, cmd, launches, child, arg, ret>>

\* package 113-131
Validate ==
    /\ pc = "validate"
    /\ LET verdict == ValidationGate(req.configuration, req.platform,
                                     configs, plats)
       IN  IF verdict = Proceed
           THEN /\ pc' = "cmd"
                /\ UNCHANGED <<outcome, result>>
           ELSE Finish("returned", verdict)
    /\ UNCHANGED <<rev, req, world, msbuild, configs, plats, cmd, launches,
                   child, arg, ret>>

\* package 133-150, script 57-74
AssembleCmd ==
    /\ pc = "cmd"
    /\ cmd' = BuildCmd(msbuild, req)
    /\ pc' = "run"
    /\ UNCHANGED <<rev, req, world, msbuild, configs, plats, launches, child,
                   outcome, result, arg, ret>>

\* package 153-159 and 170-171, script 77-83 and 94-95: subprocess.run
\* starts the child or raises FileNotFoundError, which the handler catches
SubprocessRun ==
    /\ pc = "run"
    /\ launches' = launches + 1
    /\ IF world.launchable
       THEN /\ child' = [state |-> "running"]
            /\ pc' = "wait"
            /\ UNCHANGED <<outcome, result>>
       ELSE /\ Finish("returned", LaunchNotFound)
            /\ UNCHANGED child
    /\ UNCHANGED <<rev, req, world, msbuild, configs, plats, cmd, arg, ret>>

\* the child exits; subprocess.run returns the CompletedProcess
ChildExit ==
    /\ pc = "wait"
    /\ \E returncode \in ReturnCodes, stdout \in Stdouts, stderr \in Stderrs :
           child' = [state |-> "exited", returncode |-> returncode,
                     stdout |-> stdout, stderr |-> stderr]
    /\ pc' = "summarize"
    /\ UNCHANGED <<rev, req, world, msbuild, configs, plats, cmd, launches,
                   outcome, result, arg, ret>>

\* package 162-169, script 86-93
Report ==
    /\ pc = "summarize"
    /\ Finish("returned",
              Summarize(rev, child.returncode, child.stdout, child.stderr))
    /\ UNCHANGED <<rev, req, world, msbuild, configs, plats, cmd, launches,
                   child, arg, ret>>

Next ==
    \/ Invoke
    \/ FindMsbuild
    \/ CheckProjectPath
    \/ Introspect
    \/ Validate
    \/ AssembleCmd
    \/ SubprocessRun
    \/ ChildExit
    \/ Report
    \/ Complete

Spec == Init /\ [][Next]_vars

---------------------------------------------------------------------------
(* The report applied on its own to bounded child output.                  *)

OutPieces ==
    {"error MSB1009: project file does not exist\n",
     "a.cs(1): Error CS1002\r\n",
     "fatal ERROR",
     "\nBuild FAILED.\n"}

RECURSIVE Concat(_)
Concat(pieces) ==
    IF pieces = <<>> THEN "" ELSE pieces[1] \o Concat(Tail(pieces))

Texts == {Concat(pieces) : pieces \in SeqsUpTo(OutPieces, MaxOutPieces)}

InitSummarize ==
    /\ Idle
    /\ arg \in [revision : Revisions, returncode : ReturnCodes,
                stdout : Texts, stderr : Texts]
    /\ ret = <<>>

CallSummarize ==
    /\ ret = <<>>
    /\ ret' = Summarize(arg.revision, arg.returncode, arg.stdout, arg.stderr)
    /\ UNCHANGED <<pc, rev, req, world, msbuild, configs, plats, cmd,
                   launches, child, outcome, result, arg>>

NextSummarize == CallSummarize

SpecSummarize == InitSummarize /\ [][NextSummarize]_vars

---------------------------------------------------------------------------
(* Properties of an invocation served by the package revision.             *)

RegularFile(path) == path \in DOMAIN Disk

PackageDone == pc = "done" /\ rev = "package"

IsDiscovery(r) ==
    /\ r.kind = "json"
    /\ DOMAIN r.payload =
           {"message", "available_configurations", "available_platforms"}
    /\ r.payload.available_configurations = configs
    /\ r.payload.available_platforms = plats

IsConfigRejection(r) ==
    /\ r.kind = "json"
    /\ DOMAIN r.payload = {"message", "available_configurations"}
    /\ r.payload.available_configurations = configs
    /\ Contains(r.payload.message, "'" \o req.configuration \o "'")

IsPlatformRejection(r) ==
    /\ r.kind = "json"
    /\ DOMAIN r.payload = {"message", "available_platforms"}
    /\ r.payload.available_platforms = plats
    /\ Contains(r.payload.message, "'" \o req.platform \o "'")

IsRejection(r) == IsConfigRejection(r) \/ IsPlatformRejection(r)

IsGuidance(r) ==
    /\ r.kind = "str"
    /\ Len(r.parts) = 1
    /\ Contains(r.parts[1], "Please specify them manually")

IsMissingFile(r) ==
    /\ r.kind = "str"
    /\ Len(r.parts) = 3
    /\ Contains(r.parts[1], "does not exist or is not a file")
    /\ r.parts[2] = req.project_path

\* C1: an invocation on an existing project file with an empty configuration
\* or an empty platform, for which introspection found at least one
\* configuration or platform, returns the discovery message listing the
\* configurations and platforms found, builds no argument vector and calls
\* no process launch.
C1_DiscoveryWhenUnspecified ==
    ( /\ PackageDone
      /\ RegularFile(req.project_path)
      /\ req.configuration = "" \/ req.platform = ""
      /\ configs # {} \/ plats # {} )
    => /\ outcome = "returned"
       /\ IsDiscovery(result)
       /\ cmd = <<>>
       /\ launches = 0

C1_Witness ==
    /\ PackageDone
    /\ req.project_path = "C:\\app\\app.sln"
    /\ req.configuration = ""
    /\ req.platform = "x64"
    /\ configs = {"Debug", "Release"}
    /\ IsDiscovery(result)
    /\ launches = 0

C2_Case ==
    /\ PackageDone
    /\ RegularFile(req.project_path)
    /\ req.configuration # ""
    /\ req.platform # ""

\* C2 as stated: with both parameters given, a configuration outside a
\* non-empty discovered set gets the rejection naming the configurations, a
\* platform outside a non-empty discovered set gets the rejection naming the
\* platforms whatever the configuration is, neither launches a child, and a
\* request inside both sets is not rejected.
C2_IndependentRejections ==
    C2_Case =>
       /\ (configs # {} /\ req.configuration \notin configs)
              => IsConfigRejection(result) /\ launches = 0
       /\ (plats # {} /\ req.platform \notin plats)
              => IsPlatformRejection(result) /\ launches = 0
       /\ ( /\ configs # {} /\ req.configuration \in configs
            /\ plats # {} /\ req.platform \in plats )
              => ~IsRejection(result)

\* C2 amended: the configuration is checked first.  A configuration outside
\* a non-empty discovered set gets the rejection naming the configurations;
\* a platform outside a non-empty discovered set gets the rejection naming
\* the platforms when the configuration was not rejected, and the
\* configuration rejection otherwise; no child is launched in either case;
\* a request inside both sets is not rejected.
C2_ConfigurationFirst ==
    C2_Case =>
       /\ (configs # {} /\ req.configuration \notin configs)
              => IsConfigRejection(result) /\ launches = 0
       /\ (plats # {} /\ req.platform \notin plats)
              => /\ launches = 0
                 /\ IF configs # {} /\ req.configuration \notin configs
                    THEN IsConfigRejection(result)
                    ELSE IsPlatformRejection(result)
       /\ ( /\ configs # {} /\ req.configuration \in configs
            /\ plats # {} /\ req.platform \in plats )
              => ~IsRejection(result)

C2_Witness ==
    /\ PackageDone
    /\ req.configuration = "Debug"
    /\ req.platform = "ARM"
    /\ configs = {"Debug", "Release"}
    /\ plats = {"x64"}
    /\ IsPlatformRejection(result)
    /\ launches = 0

\* introspection returned to the handler and found nothing
C3_Case ==
    /\ PackageDone
    /\ msbuild # ""
    /\ RegularFile(req.project_path)
    /\ outcome = "returned"
    /\ configs = {}
    /\ plats = {}

C3_Permissive ==
    /\ ~IsDiscovery(result)
    /\ ~IsGuidance(result)
    /\ result.kind # "json"
    /\ cmd # <<>>
    /\ cmd[3] = "/p:Configuration=" \o req.configuration
    /\ cmd[4] = "/p:Platform=" \o req.platform
    /\ launches = 1

C4_ToolchainFailureReturnsString ==
    (pc = "done" /\ (world.installation = "" \/ ~world.binary_exists))
    => /\ outcome = "returned"
       /\ result.kind = "str"
       /\ launches = 0

ReadOrParseFails(path) ==
    \/ ~Disk[path].readable
    \/ ~EndsWith(path, ".sln") /\ ~Disk[path].wellformed

\* C5: introspection never raises: for a solution file and for any other
\* project file alike, a failure to read or parse the file gives two empty
\* collections, and no exception of introspection leaves the invocation.
C5_IntrospectionNeverRaises ==
    ( /\ PackageDone
      /\ msbuild # ""
      /\ RegularFile(req.project_path) )
    => /\ outcome = "returned"
       /\ ReadOrParseFails(req.project_path) => (configs = {} /\ plats = {})

---------------------------------------------------------------------------
(* Properties of the report.                                               *)

\* line holds the letters e, r, r, o, r in a row from position i, each in
\* either case
ErrorTokenAt(line, i) ==
    \A k \in 1..5 : Char(line, i + k - 1) \in {Char("error", k), Char("ERROR", k)}

MentionsError(line) == \E i \in 1..(Len(line) - 4) : ErrorTokenAt(line, i)

\* the lines of stdout, then the lines of stderr
StreamLines(a) == SplitLines(a.stdout) \o SplitLines(a.stderr)

Matching(lines) == {i \in DOMAIN lines : MentionsError(lines[i])}

\* the matching lines, in the order they have in lines
MatchingInOrder(lines) ==
    [k \in 1..Cardinality(Matching(lines)) |->
        lines[CHOOSE i \in Matching(lines) :
                  Cardinality({j \in Matching(lines) : j <= i}) = k]]

\* text cut at every "\n"
RECURSIVE CutAtNewlines(_)
CutAtNewlines(text) ==
    IF Contains(text, "\n")
    THEN <<SubSeq(text, 1, Find(text, "\n") - 1)>>
         \o CutAtNewlines(SubSeq(text, Find(text, "\n") + 1, Len(text)))
    ELSE <<text>>

\* C6: for a non-zero exit code the filtered-errors part of the report is
\* made of exactly the lines that hold "error" in any letter case: those of
\* stdout in their order, then those of stderr in their order, each line
\* verbatim, none dropped and no other line added.
C6_FilteredErrorsExact ==
    (ret # <<>> /\ arg.returncode # 0)
    => /\ ret.kind = "str"
       /\ Len(ret.parts) >= 2
       /\ IF Matching(StreamLines(arg)) = {}
          THEN ret.parts[2] = ""
          ELSE CutAtNewlines(ret.parts[2]) = MatchingInOrder(StreamLines(arg))

C6_Witness ==
    /\ ret # <<>>
    /\ arg.returncode = 1
    /\ arg.stdout = "a.cs(1): Error CS1002\r\n\nBuild FAILED.\n"
    /\ arg.stderr = "fatal ERRORerror MSB1009: project file does not exist\n"
    /\ ret.parts[2] = "a.cs(1): Error CS1002\nfatal ERRORerror MSB1009: project file does not exist"

\* C7: for a non-zero exit code the report returned embeds, after the
\* filtered error lines, the whole captured stdout and the whole captured
\* stderr verbatim.
C7_FullOutputEmbedded ==
    (pc = "done" /\ child.state = "exited" /\ child.returncode # 0)
    => /\ result.kind = "str"
       /\ \E i, j \in 3..Len(result.parts) :
              /\ i < j
              /\ result.parts[i] = child.stdout
              /\ result.parts[j] = child.stderr

---------------------------------------------------------------------------
(* Properties of the argument vector.                                      *)

NodeReuseOff == {"/nodeReuse:false", "/nr:false", "-nodeReuse:false", "-nr:false"}

\* C8: the argument vector of a request that passed validation is, in this
\* order: executable, project path, configuration property, platform
\* property, verbosity flag, the explicit parallelism flag when max
\* parallelism is set and the auto-parallel flag when it is not, a flag that
\* turns build-node reuse off, the restore flag exactly when restore is
\* true, and the whitespace-separated tokens of the extra arguments in their
\* order.
C8_ArgumentVector ==
    (rev = "package" /\ cmd # <<>>)
    => \E flag \in NodeReuseOff :
           cmd = <<msbuild,
                   req.project_path,
                   "/p:Configuration=" \o req.configuration,
                   "/p:Platform=" \o req.platform,
                   "/verbosity:" \o req.verbosity,
                   IF req.max_cpu_count # <<>>
                   THEN "/maxcpucount:" \o ToString(req.max_cpu_count[1])
                   ELSE "/m",
                   flag>>
                 \o (IF req.restore THEN <<"/restore">> ELSE <<>>)
                 \o Split(req.additional_args)

---------------------------------------------------------------------------
(* Properties of solution-file introspection.                              *)

\* line i comes after a section marker with no section end in between, the
\* line itself included (a section the file does not close runs to its end)
InSection(lines, i) ==
    \E m \in 1..(i - 1) :
        /\ Contains(lines[m], SlnSectionMarker)
        /\ \A k \in (m + 1)..i : ~Contains(lines[k], SlnSectionEnd)

\* the Config|Platform entry of a line: the text left of the first "=",
\* cut at its first "|", without the blanks around the whole
EntryOf(line) ==
    LET eqs == {j \in 1..Len(line) : Char(line, j) = "="}
    IN  IF eqs = {} THEN {}
        ELSE LET bars == {i \in 1..(Min(eqs) - 1) : Char(line, i) = "|"}
                 ink == {k \in 1..(Min(eqs) - 1) : Char(line, k) \notin Whitespace}
             IN  IF bars = {} THEN {}
                 ELSE {<<SubSeq(line, Min(ink), Min(bars) - 1),
                         SubSeq(line, Min(bars) + 1, Max(ink))>>}

SectionEntries(lines) ==
    UNION {EntryOf(lines[i]) : i \in {n \in DOMAIN lines : InSection(lines, n)}}

C9_Case ==
    /\ ret # <<>>
    /\ EndsWith(arg.project_path, ".sln")
    /\ arg.file.readable

\* C9: for a solution file introspection returns exactly the distinct
\* configuration tokens and the distinct platform tokens of the
\* Config|Platform entries that lie between a SolutionConfigurationPlatforms
\* marker and the section end that follows it; lines outside such a section,
\* Config|Platform-shaped lines of other sections included, add nothing.
C9_SolutionSectionExact ==
    C9_Case
    => /\ ~ret.raised
       /\ ret.configs = {e[1] : e \in SectionEntries(arg.file.lines)}
       /\ ret.plats = {e[2] : e \in SectionEntries(arg.file.lines)}

C9_Witness ==
    /\ C9_Case
    /\ arg.file.lines =
           <<"\tGlobalSection(SolutionConfigurationPlatforms) = preSolution",
             "\t\tRelease|Any CPU = Release|Any CPU",
             "\tEndGlobalSection",
             "\t\t{A1}.Debug|x86.Build.0 = Debug|x86">>
    /\ ret.configs = {"Release"}
    /\ ret.plats = {"Any CPU"}

---------------------------------------------------------------------------
(* Order of the steps of an invocation.                                    *)

=============================================================================
